---- MODULE Spec2Model ----
(***************************************************************************)
(* A model of lib/grunt/file.js: pattern expansion (file.expand), type     *)
(* filtered expansion (expandByType, file.expandFiles, file.expandDirs),   *)
(* URL classification (file.expandFileURLs), the directory walker          *)
(* (file.recurse) and the ancestor search (file.findup).                   *)
(*                                                                         *)
(* Strings are sequences of one-character strings, so that the prefix and  *)
(* delimiter tests of the code are computed, not assumed.                  *)
(***************************************************************************)
EXTENDS Integers, Sequences, FiniteSets, TLC

VARIABLES
  platform,   \* "posix" or "win32": decides path.resolve and path separators
  fs,         \* entries of the current working directory: name -> kind
  patterns,   \* the pattern list handed to the expansion call
  op,         \* which expansion entry point has been called ("none" before)
  result,     \* the array the call returned (<<>> when it threw)
  err,        \* "none", or "TaskError" when the call threw
  statLog,    \* the paths fs.statSync was called on, in order
  tree,       \* the directory tree below /r: relative path -> kind
  walkRoot,   \* the rootdir handed to file.recurse
  walk,       \* "idle", "done", or "threw" when readdirSync failed
  calls,      \* the callback invocations of the walk, in order
  cwd,        \* process.cwd() of the findup calls
  has,        \* the absolute directories that hold the searched file
  startDir,   \* the rootdir handed to file.findup by its caller
  fuPc,       \* "call", "run" or "done"
  fuDir,      \* rootdir of the findup activation on top of the stack
  fuName,     \* filename of that activation
  fuDepth,    \* number of recursive findup calls so far
  fuRet,      \* <<>> for null, <<p>> for the returned path
  fuErr       \* "none", or "RangeError" when the call stack overflowed

expandVars == <<platform, fs, patterns, op, result, err, statLog>>

walkVars == <<tree, walkRoot, walk, calls>>

findupVars == <<cwd, has, startDir, fuPc, fuDir, fuName, fuDepth, fuRet, fuErr>>

vars == <<expandVars, walkVars, findupVars>>

----------------------------------------------------------------------------
(* Bounds of the explored inputs.                                          *)

\* longest top-level pattern list
MaxLen == 2

\* longest nested pattern list
MaxNestLen == 2

\* deepest entry of the walked tree, counted below the root
MaxTreeDepth == 2

\* deepest directory of the findup filesystems
MaxDirDepth == 2

\* call-stack frames available to the findup recursion
MaxStack == 6

----------------------------------------------------------------------------
(* Strings.                                                                *)

sA == <<"a">>
sStar == <<"*">>
sD == <<"<", "d", ">">>
sTmpl == <<"<", "%", "=", "v", "%", ">">>
sHttp == <<"h", "t", "t", "p", ":", "/", "/", "x">>
sFILE == <<"F", "I", "L", "E", ":", "/", "/", "y">>
sIsFile == <<"i", "s", "F", "i", "l", "e">>
sIsDirectory == <<"i", "s", "D", "i", "r", "e", "c", "t", "o", "r", "y">>

HasPrefix(s, p) == Len(s) >= Len(p) /\ SubSeq(s, 1, Len(p)) = p

HasSuffix(s, p) == Len(s) >= Len(p) /\ SubSeq(s, Len(s) - Len(p) + 1, Len(s)) = p

UpperToLower ==
  [c \in {"E", "F", "H", "I", "L", "P", "S", "T"} |->
     CASE c = "E" -> "e" [] c = "F" -> "f" [] c = "H" -> "h" [] c = "I" -> "i"
       [] c = "L" -> "l" [] c = "P" -> "p" [] c = "S" -> "s" [] c = "T" -> "t"]

ToLower(s) ==
  [i \in 1..Len(s) |-> IF s[i] \in DOMAIN UpperToLower THEN UpperToLower[s[i]] ELSE s[i]]

\* Array.prototype.join / String(array): elements separated by sep
RECURSIVE JoinStr(_, _)
JoinStr(strs, sep) ==
  IF strs = <<>> THEN <<>>
  ELSE IF Len(strs) = 1 THEN strs[1]
  ELSE strs[1] \o sep \o JoinStr(Tail(strs), sep)

RECURSIVE Concat(_)
Concat(seqs) == IF seqs = <<>> THEN <<>> ELSE Head(seqs) \o Concat(Tail(seqs))

Map(f(_), s) == [i \in 1..Len(s) |-> f(s[i])]

----------------------------------------------------------------------------
(* Pattern lists: an entry is a string or a nested array of entries.       *)

Leaf(s) == [leaf |-> TRUE, s |-> s, kids |-> <<>>]

List(kids) == [leaf |-> FALSE, s |-> <<>>, kids |-> kids]

SeqsUpTo(S, n) == UNION {[1..k -> S] : k \in 0..n}

\* _.flatten: depth-first, order preserved
RECURSIVE flatten(_)
flatten(list) ==
  IF list = <<>> THEN <<>>
  ELSE (IF Head(list).leaf THEN <<Head(list).s>> ELSE flatten(Head(list).kids))
       \o flatten(Tail(list))

\* String(entry), as the regular expression test of expandFileURLs sees it
toString(item) ==
  IF item.leaf THEN item.s ELSE JoinStr(flatten(item.kids), <<",">>)

\* `arguments[0] instanceof Array ? arguments[0] : toArray(arguments)`
argPatterns(argv) ==
  IF argv # <<>> /\ ~argv[1].leaf THEN argv[1].kids ELSE argv

----------------------------------------------------------------------------
(* Collaborators outside file.js.                                          *)

\* the helpers registered with the task runner
Helpers == {<<"d">>}

RECURSIVE UpToColon(_)
UpToColon(s) ==
  IF s = <<>> \/ Head(s) = ":" THEN <<>> ELSE <<Head(s)>> \o UpToColon(Tail(s))

\* grunt.task.getDirectiveParts: truthy for <helper> and <helper:args>
getDirectiveParts(str) ==
  /\ Len(str) >= 2
  /\ str[1] = "<"
  /\ str[Len(str)] = ">"
  /\ UpToColon(SubSeq(str, 2, Len(str) - 1)) \in Helpers

\* the configuration the template processor reads
TemplateData == [k \in {<<"v">>} |-> sA]

\* grunt.template.process: <%=key%> is replaced by the configured value
templateProcess(str) ==
  IF /\ HasPrefix(str, <<"<", "%", "=">>)
     /\ HasSuffix(str, <<"%", ">">>)
     /\ Len(str) >= 5
     /\ SubSeq(str, 4, Len(str) - 2) \in DOMAIN TemplateData
  THEN TemplateData[SubSeq(str, 4, Len(str) - 2)]
  ELSE str

\* the order in which the matcher lists the working directory
DirOrder == <<sA, sIsDirectory, sIsFile>>

FsNames == {DirOrder[i] : i \in 1..Len(DirOrder)}

\* glob.glob: the existing entries the pattern matches, in directory order
glob(fsys, pattern) ==
  LET Match(name) == fsys[name] # "none" /\ (pattern = sStar \/ pattern = name)
  IN SelectSeq(DirOrder, Match)

\* fs.statSync(p): the kind of p, or "ENOENT" when the query fails
statSync(fsys, p) ==
  IF p \in DOMAIN fsys /\ fsys[p] \in {"file", "dir"} THEN fsys[p] ELSE "ENOENT"

----------------------------------------------------------------------------
(* file.expand                                                             *)

NumKey(n) == [t |-> "number", n |-> n, s |-> <<>>]

StrKey(s) == [t |-> "string", n |-> 0, s |-> s]

\* a dedup key that compares directives by their text
uniqKeyByText(filepath, uid) == StrKey(filepath)

\* the iterator handed to uniq; uid is the counter after ++uid
uniqKey(filepath, uid) ==
  IF getDirectiveParts(filepath) THEN NumKey(uid) ELSE StrKey(filepath)

\* _.map(array, iterator), threading the uid counter through the calls
RECURSIVE uniqKeys(_, _)
uniqKeys(array, uid) ==
  IF array = <<>> THEN <<>>
  ELSE LET next == IF getDirectiveParts(Head(array)) THEN uid + 1 ELSE uid
       IN <<uniqKey(Head(array), next)>> \o uniqKeys(Tail(array), next)

\* a uniq that keeps the last occurrence of a key instead of the first
uniqKeepLast(array, keys) ==
  LET Keep(i) == \A j \in (i + 1)..Len(keys) : keys[j] # keys[i]
      idx == {i \in 1..Len(array) : Keep(i)}
      RECURSIVE Pick(_)
      Pick(i) == IF i > Len(array) THEN <<>>
                 ELSE (IF i \in idx THEN <<array[i]>> ELSE <<>>) \o Pick(i + 1)
  IN Pick(1)

\* _.uniq(array, false, iterator): keep an element iff its key is new
uniq(array, keys) ==
  LET RECURSIVE Reduce(_, _, _)
      Reduce(i, memo, results) ==
        IF i > Len(array) THEN results
        ELSE IF keys[i] \in memo
             THEN Reduce(i + 1, memo, results)
             ELSE Reduce(i + 1, memo \cup {keys[i]}, Append(results, array[i]))
  IN Reduce(1, {}, <<>>)

\* the map callback of file.expand: one pattern's results
expandOne(fsys, pattern) ==
  LET p == templateProcess(pattern)
  IN IF getDirectiveParts(p) THEN <<p>> ELSE glob(fsys, p)

\* the chain up to the second flatten
expandAll(fsys, argv) ==
  LET One(p) == expandOne(fsys, p)
  IN Concat(Map(One, flatten(argPatterns(argv))))

expand(fsys, argv, now) ==
  LET flat == expandAll(fsys, argv)
  IN uniq(flat, uniqKeys(flat, now))

----------------------------------------------------------------------------
(* expandByType, file.expandFiles, file.expandDirs                         *)

\* a filter callback that queries every entry
skipsStatNever(filepath) == FALSE

\* `if (grunt.task.getDirectiveParts(filepath)) { return filepath; }`
skipsStat(filepath) == getDirectiveParts(filepath)

\* a catch block that leaves the entry out instead of throwing
catchSwallows == "exclude"

\* `catch(e) { throw grunt.task.taskError(e.message, e); }`
catchPolicy == "throw"

\* fs.statSync(filepath)[type]()
typeHolds(type, kind) ==
  \/ type = sIsFile /\ kind = "file"
  \/ type = sIsDirectory /\ kind = "dir"

\* Array.prototype.filter with the callback of expandByType
RECURSIVE filterByType(_, _, _, _, _, _)
filterByType(fsys, type, array, i, kept, log) ==
  IF i > Len(array) THEN [threw |-> FALSE, value |-> kept, log |-> log]
  ELSE IF skipsStat(array[i])
       THEN filterByType(fsys, type, array, i + 1, Append(kept, array[i]), log)
       ELSE LET kind == statSync(fsys, array[i])
                log2 == Append(log, array[i])
            IN IF kind = "ENOENT"
               THEN IF catchPolicy = "throw"
                    THEN [threw |-> TRUE, value |-> <<>>, log |-> log2]
                    ELSE filterByType(fsys, type, array, i + 1, kept, log2)
               ELSE filterByType(fsys, type, array, i + 1,
                                 IF typeHolds(type, kind)
                                 THEN Append(kept, array[i]) ELSE kept,
                                 log2)

\* `file.expand.apply(file, arguments)`: arguments still begins with type
expandByType(fsys, type, argv, now) ==
  filterByType(fsys, type, expand(fsys, <<Leaf(type)>> \o argv, now), 1, <<>>, <<>>)

expandDirs(fsys, argv, now) == expandByType(fsys, sIsDirectory, argv, now)

expandFiles(fsys, argv, now) == expandByType(fsys, sIsFile, argv, now)

----------------------------------------------------------------------------
(* file.expandFileURLs                                                     *)

\* /^(?:file|https?):\/\//i
isURL(str) ==
  LET l == ToLower(str)
  IN \/ HasPrefix(l, <<"f", "i", "l", "e", ":", "/", "/">>)
     \/ HasPrefix(l, <<"h", "t", "t", "p", ":", "/", "/">>)
     \/ HasPrefix(l, <<"h", "t", "t", "p", "s", ":", "/", "/">>)

\* process.cwd()
cwdString(plat) ==
  IF plat = "win32" THEN <<"C", ":", "\\", "p">> ELSE <<"/", "p">>

\* path.resolve(filepath) for an entry of the working directory
pathResolve(plat, filepath) ==
  cwdString(plat) \o (IF plat = "win32" THEN <<"\\">> ELSE <<"/">>) \o filepath

\* the map callback of expandFileURLs
fileURL(plat, filepath) ==
  LET abspath == pathResolve(plat, filepath)
      slashed == [i \in 1..Len(abspath) |-> IF abspath[i] = "\\" THEN "/" ELSE abspath[i]]
  IN <<"f", "i", "l", "e", ":", "/", "/">>
     \o (IF abspath[1] # "/" THEN <<"/">> \o slashed ELSE abspath)

expandFileURLs(fsys, plat, argv, now) ==
  LET pats == argPatterns(argv)
      Url(item) == isURL(toString(item))
      NotUrl(item) == ~isURL(toString(item))
      urls == SelectSeq(pats, Url)
      files == expandFiles(fsys, <<List(SelectSeq(pats, NotUrl))>>, now)
      ToURL(p) == fileURL(plat, p)
  IN IF files.threw THEN files
     ELSE [threw |-> FALSE,
           value |-> Map(ToURL, files.value) \o Map(toString, urls),
           log |-> files.log]

----------------------------------------------------------------------------
(* Paths: a drive letter ("" where there is none), whether the path is     *)
(* absolute, and its segments. The empty relative path is the string ''.   *)

Path(drive, abs, segs) == [drive |-> drive, abs |-> abs, segs |-> segs]

Rel(segs) == Path("", FALSE, segs)

\* normalizeArray of node's path module: "." is dropped, ".." removes the
\* segment before it; a relative path keeps the ".." it cannot resolve
RECURSIVE normalizeArray(_, _, _)
normalizeArray(segs, abs, acc) ==
  IF segs = <<>> THEN acc
  ELSE IF Head(segs) = "." THEN normalizeArray(Tail(segs), abs, acc)
  ELSE IF Head(segs) = ".."
       THEN IF acc # <<>> /\ acc[Len(acc)] # ".."
            THEN normalizeArray(Tail(segs), abs, SubSeq(acc, 1, Len(acc) - 1))
            ELSE IF abs THEN normalizeArray(Tail(segs), abs, acc)
            ELSE normalizeArray(Tail(segs), abs, Append(acc, ".."))
  ELSE normalizeArray(Tail(segs), abs, Append(acc, Head(segs)))

\* path.normalize: an empty relative result is "."
pathNormalize(p) ==
  LET segs == normalizeArray(p.segs, p.abs, <<>>)
  IN Path(p.drive, p.abs, IF ~p.abs /\ segs = <<>> THEN <<".">> ELSE segs)

SegsOf(paths) == Concat([i \in 1..Len(paths) |-> paths[i].segs])

\* path.join of optional arguments (<<>> is undefined, <<p>> is the string
\* p): arguments that are not non-empty strings are filtered out
pathJoin(args) ==
  LET Given(a) == a # <<>> /\ (a[1].abs \/ a[1].segs # <<>>)
      given == Concat(SelectSeq(args, Given))
  IN IF given = <<>> THEN Rel(<<".">>)
     ELSE pathNormalize(Path(given[1].drive, given[1].abs, SegsOf(given)))

\* path.resolve(paths...): the rightmost absolute path and what follows it,
\* or everything below the working directory when none is absolute
pathResolveAll(cwdp, paths) ==
  LET absAt == {i \in 1..Len(paths) : paths[i].abs}
      from == IF absAt = {} THEN 0 ELSE CHOOSE i \in absAt : \A j \in absAt : j <= i
      base == IF from = 0 THEN cwdp ELSE paths[from]
      rest == SubSeq(paths, from + 1, Len(paths))
  IN Path(base.drive, TRUE, normalizeArray(base.segs \o SegsOf(rest), TRUE, <<>>))

----------------------------------------------------------------------------
(* file.recurse                                                            *)

\* the working directory of the walks
WalkCwd == Path("", TRUE, <<"r">>)

\* entry names, in the order readdirSync lists them
TreeNames == <<"x", "y">>

\* the kind of an absolute path in a tree rooted at the working directory
kindAt(tr, p) ==
  IF p.segs = WalkCwd.segs THEN "dir"
  ELSE IF Len(p.segs) < 2 \/ p.segs[1] # WalkCwd.segs[1] THEN "none"
  ELSE IF Tail(p.segs) \in tr.files THEN "file"
  ELSE IF Tail(p.segs) \in tr.dirs THEN "dir"
  ELSE "none"

\* fs.statSync(filepath).isDirectory()
isDirectory(tr, p) == kindAt(tr, pathResolveAll(WalkCwd, <<p>>)) = "dir"

\* fs.readdirSync(abspath)
readdirSync(tr, p) ==
  LET a == pathResolveAll(WalkCwd, <<p>>)
      In(name) == kindAt(tr, Path("", TRUE, Append(a.segs, name))) # "none"
  IN SelectSeq(TreeNames, In)

\* `path.join(subdir, filename)`, the subdir of the recursive call
nextSubdir(subdir, filename) == <<pathJoin(<<subdir, <<Rel(<<filename>>)>>>>)>>

\* callback arguments whose full path leaves the subdirectory out
callbackArgsNoSubdir(rootdir, subdir, filename) ==
  [fullPath |-> pathJoin(<<<<rootdir>>, <<Rel(<<filename>>)>>>>),
   rootdir |-> rootdir, subdir |-> subdir, filename |-> filename]

\* `callback(path.join(rootdir, subdir, filename), rootdir, subdir, filename)`
callbackArgs(rootdir, subdir, filename) ==
  [fullPath |-> pathJoin(<<<<rootdir>>, subdir, <<Rel(<<filename>>)>>>>),
   rootdir |-> rootdir, subdir |-> subdir, filename |-> filename]

\* the callback invocations of recurse(rootdir, callback, subdir), in order;
\* subdir is <<>> for undefined
RECURSIVE recurse(_, _, _)
recurse(tr, rootdir, subdir) ==
  LET abspath == IF subdir # <<>> /\ subdir[1].segs # <<>>
                 THEN pathJoin(<<<<rootdir>>, subdir>>) ELSE rootdir
      Visit(filename) ==
        IF isDirectory(tr, pathJoin(<<<<abspath>>, <<Rel(<<filename>>)>>>>))
        THEN recurse(tr, rootdir, nextSubdir(subdir, filename))
        ELSE <<callbackArgs(rootdir, subdir, filename)>>
  IN Concat(Map(Visit, readdirSync(tr, abspath)))

----------------------------------------------------------------------------
(* file.findup                                                             *)

\* the name searched for
FileName == "f"

\* `var root = path.resolve('/')`, computed when the module is loaded
root(cwdp) == Path(cwdp.drive, TRUE, <<>>)

\* path.existsSync(filepath): the file lies in a directory that holds it
existsSync(cwdp, holders, filepath) ==
  LET a == pathResolveAll(cwdp, <<filepath>>)
  IN /\ a.segs # <<>>
     /\ a.segs[Len(a.segs)] = FileName
     /\ Path(a.drive, TRUE, SubSeq(a.segs, 1, Len(a.segs) - 1)) \in holders

\* `path.join(rootdir, filename)`
findupCandidate(rootdir, filename) == pathJoin(<<<<rootdir>>, <<Rel(<<filename>>)>>>>)

\* `path.resolve(rootdir, '..')`
findupParent(cwdp, rootdir) == pathResolveAll(cwdp, <<rootdir, Rel(<<"..">>)>>)

----------------------------------------------------------------------------
(* The expansion calls as a state machine.                                 *)

Kinds == {"none", "file", "dir", "broken"}

\* the working directories explored: "a" may also be a dangling link
FsStates ==
  {f \in [FsNames -> Kinds] :
     /\ f[sIsFile] \in {"none", "file", "dir"}
     /\ f[sIsDirectory] \in {"none", "file", "dir"}}

\* what +new Date() may return
Clock == {0, 1}

NestLeaves == {sA, sD}

NestedLists == {List(k) : k \in SeqsUpTo({Leaf(s) : s \in NestLeaves}, MaxNestLen)}

PlainLeaves == {sA, sStar, sD, sTmpl}

PatternLists == SeqsUpTo({Leaf(s) : s \in PlainLeaves} \cup NestedLists, MaxLen)

UrlLeaves == {sA, sStar, sD, sHttp, sFILE}

UrlPatternLists == SeqsUpTo({Leaf(s) : s \in UrlLeaves} \cup NestedLists, MaxLen)

\* the walker has not been called
WalkIdle ==
  /\ tree = [files |-> {}, dirs |-> {}]
  /\ walkRoot = WalkCwd
  /\ walk = "idle"
  /\ calls = <<>>

\* findup has not been called
FindupIdle ==
  /\ cwd = Path("", TRUE, <<>>)
  /\ has = {}
  /\ startDir = Path("", TRUE, <<>>)
  /\ fuPc = "idle"
  /\ fuDir = Path("", TRUE, <<>>)
  /\ fuName = FileName
  /\ fuDepth = 0
  /\ fuRet = <<>>
  /\ fuErr = "none"

\* no expansion call is made
ExpandIdle ==
  /\ fs = [n \in FsNames |-> "none"]
  /\ patterns = <<>>
  /\ op = "idle"
  /\ result = <<>>
  /\ err = "none"
  /\ statLog = <<>>

Return(name, r) ==
  /\ op' = name
  /\ result' = r.value
  /\ err' = IF r.threw THEN "TaskError" ELSE "none"
  /\ statLog' = r.log
  /\ UNCHANGED <<platform, fs, patterns, walkVars, findupVars>>

Init ==
  /\ platform = "posix"
  /\ fs \in FsStates
  /\ patterns \in PatternLists
  /\ op = "none"
  /\ result = <<>>
  /\ err = "none"
  /\ statLog = <<>>
  /\ WalkIdle
  /\ FindupIdle

\* file.expand(patterns)
Expand ==
  /\ op = "none"
  /\ \E now \in Clock :
       Return("expand", [threw |-> FALSE,
                         value |-> expand(fs, <<List(patterns)>>, now),
                         log |-> <<>>])

\* file.expandFiles(patterns)
ExpandFiles ==
  /\ op = "none"
  /\ \E now \in Clock : Return("expandFiles", expandFiles(fs, <<List(patterns)>>, now))

\* file.expandDirs(patterns)
ExpandDirs ==
  /\ op = "none"
  /\ \E now \in Clock : Return("expandDirs", expandDirs(fs, <<List(patterns)>>, now))

Next == Expand \/ ExpandFiles \/ ExpandDirs

Spec == Init /\ [][Next]_vars

UrlInit ==
  /\ platform \in {"posix", "win32"}
  /\ fs \in FsStates
  /\ patterns \in UrlPatternLists
  /\ op = "none"
  /\ result = <<>>
  /\ err = "none"
  /\ statLog = <<>>
  /\ WalkIdle
  /\ FindupIdle

\* file.expandFileURLs(patterns)
ExpandFileURLs ==
  /\ op = "none"
  /\ \E now \in Clock :
       Return("expandFileURLs", expandFileURLs(fs, platform, <<List(patterns)>>, now))

UrlNext == ExpandFileURLs \/ ExpandFiles

UrlSpec == UrlInit /\ [][UrlNext]_vars

----------------------------------------------------------------------------
(* The directory walk as a state machine.                                  *)

NoTree == [files |-> {}, dirs |-> {}]

\* every tree of depth at most d: each name is absent, a file, or a directory
\* holding a tree of depth at most d - 1
RECURSIVE Forests(_)
Forests(d) ==
  IF d = 0 THEN {NoTree}
  ELSE LET Under(n, s) == [files |-> {<<n>> \o q : q \in s.files},
                           dirs |-> {<<n>>} \cup {<<n>> \o q : q \in s.dirs}]
           Entry(n) == {NoTree, [files |-> {<<n>>}, dirs |-> {}]}
                       \cup {Under(n, s) : s \in Forests(d - 1)}
       IN {[files |-> a.files \cup b.files, dirs |-> a.dirs \cup b.dirs] :
             a \in Entry(TreeNames[1]), b \in Entry(TreeNames[2])}

\* the roots handed to the walker: absolute, ".", and subdirectories
WalkRoots ==
  {WalkCwd, Rel(<<".">>), Rel(<<TreeNames[1]>>), Path("", TRUE, Append(WalkCwd.segs, TreeNames[2]))}

WalkInit ==
  /\ platform = "posix"
  /\ ExpandIdle
  /\ FindupIdle
  /\ tree \in Forests(MaxTreeDepth)
  /\ walkRoot \in WalkRoots
  /\ walk = "idle"
  /\ calls = <<>>

\* file.recurse(walkRoot, callback) on a directory
Recurse ==
  /\ walk = "idle"
  /\ isDirectory(tree, walkRoot)
  /\ walk' = "done"
  /\ calls' = recurse(tree, walkRoot, <<>>)
  /\ UNCHANGED <<tree, walkRoot, expandVars, findupVars>>

\* file.recurse(walkRoot, callback) when readdirSync of the root fails
RecurseThrows ==
  /\ walk = "idle"
  /\ ~isDirectory(tree, walkRoot)
  /\ walk' = "threw"
  /\ UNCHANGED <<tree, walkRoot, calls, expandVars, findupVars>>

WalkNext == Recurse \/ RecurseThrows

WalkSpec == WalkInit /\ [][WalkNext]_vars

----------------------------------------------------------------------------
(* The ancestor search as a state machine: one step per findup activation. *)

Drives(plat) == IF plat = "win32" THEN {"C", "D"} ELSE {""}

\* the drive of the working directory when the module was loaded
LoadDrive(plat) == IF plat = "win32" THEN "C" ELSE ""

DirNames == {"p", "q"}

AbsDirs(plat) ==
  {Path(d, TRUE, s) : d \in Drives(plat), s \in SeqsUpTo(DirNames, MaxDirDepth)}

\* starting directories: absolute or relative, normalized or not
StartDirs(plat) ==
  LET segs == SeqsUpTo(DirNames \cup {".."}, MaxDirDepth)
  IN {Path(d, TRUE, s) : d \in Drives(plat), s \in segs}
     \cup {Rel(IF s = <<>> THEN <<".">> ELSE s) : s \in segs}

FindupInit ==
  /\ ExpandIdle
  /\ WalkIdle
  /\ platform \in {"posix", "win32"}
  /\ cwd \in {d \in AbsDirs(platform) : d.drive = LoadDrive(platform)}
  /\ has \in {h \in SUBSET AbsDirs(platform) : Cardinality(h) <= 2}
  /\ startDir \in StartDirs(platform)
  /\ fuPc = "call"
  /\ fuDir = startDir
  /\ fuName = FileName
  /\ fuDepth = 0
  /\ fuRet = <<>>
  /\ fuErr = "none"

\* what a findup step leaves alone besides its own activation
FindupFrame == <<cwd, has, startDir, expandVars, walkVars>>

\* the caller's file.findup(startDir, filename)
FindupCall ==
  /\ fuPc = "call"
  /\ fuPc' = "run"
  /\ fuDir' = startDir
  /\ fuName' = FileName
  /\ UNCHANGED <<fuDepth, fuRet, fuErr, FindupFrame>>

\* `if (path.existsSync(filepath)) { return filepath; }`
FindupFound ==
  /\ fuPc = "run"
  /\ existsSync(cwd, has, findupCandidate(fuDir, fuName))
  /\ fuPc' = "done"
  /\ fuRet' = <<findupCandidate(fuDir, fuName)>>
  /\ UNCHANGED <<fuDir, fuName, fuDepth, fuErr, FindupFrame>>

\* `else if (rootdir === root) { return null; }`
FindupAtRoot ==
  /\ fuPc = "run"
  /\ ~existsSync(cwd, has, findupCandidate(fuDir, fuName))
  /\ fuDir = root(cwd)
  /\ fuPc' = "done"
  /\ fuRet' = <<>>
  /\ UNCHANGED <<fuDir, fuName, fuDepth, fuErr, FindupFrame>>

\* `else { return findup(path.resolve(rootdir, '..'), filename); }`
FindupRecurse ==
  /\ fuPc = "run"
  /\ ~existsSync(cwd, has, findupCandidate(fuDir, fuName))
  /\ fuDir # root(cwd)
  /\ fuDepth < MaxStack
  /\ fuDir' = findupParent(cwd, fuDir)
  /\ fuDepth' = fuDepth + 1
  /\ UNCHANGED <<fuPc, fuName, fuRet, fuErr, FindupFrame>>

\* the same recursive call once the call stack is full: a RangeError
FindupOverflow ==
  /\ fuPc = "run"
  /\ ~existsSync(cwd, has, findupCandidate(fuDir, fuName))
  /\ fuDir # root(cwd)
  /\ fuDepth = MaxStack
  /\ fuPc' = "done"
  /\ fuErr' = "RangeError"
  /\ UNCHANGED <<fuDir, fuName, fuDepth, fuRet, FindupFrame>>

FindupNext ==
  FindupCall \/ FindupFound \/ FindupAtRoot \/ FindupRecurse \/ FindupOverflow

FindupSpec == FindupInit /\ [][FindupNext]_vars

----------------------------------------------------------------------------
(* Properties of the expansion calls.                                      *)

Elems(s) == {s[i] : i \in 1..Len(s)}

Count(s, x) == Cardinality({i \in 1..Len(s) : s[i] = x})

FirstIdx(s, x) == CHOOSE i \in 1..Len(s) : s[i] = x /\ \A j \in 1..(i - 1) : s[j] # x

Before(s, x) == {s[j] : j \in 1..(FirstIdx(s, x) - 1)}

RECURSIVE IsSubseq(_, _)
IsSubseq(s, t) ==
  IF s = <<>> THEN TRUE
  ELSE IF t = <<>> THEN FALSE
  ELSE IF Head(s) = Head(t) THEN IsSubseq(Tail(s), Tail(t))
  ELSE IsSubseq(s, Tail(t))

\* the per-pattern results of the call's pattern list, flattened
Flat == expandAll(fs, <<List(patterns)>>)

\* what file.expand returns for the call's pattern list
Expansion == expand(fs, <<List(patterns)>>, 0)

Directives(s) == SelectSeq(s, getDirectiveParts)

TypeOf(name) == IF name = "expandDirs" THEN sIsDirectory ELSE sIsFile

\* C1: after file.expand, every plain path of the flattened per-pattern
\* results occurs exactly once in the output, preceded by exactly the entries
\* that precede its first occurrence; every directive token occurs as often
\* as in the flattened results; the output holds nothing else.
C1_DedupKeepsDirectives ==
  op = "expand" =>
    /\ Elems(result) = Elems(Flat)
    /\ \A x \in Elems(Flat) :
         IF getDirectiveParts(x)
         THEN Count(result, x) = Count(Flat, x)
         ELSE Count(result, x) = 1 /\ Before(result, x) = Before(Flat, x)

\* a plain path occurs twice and a directive occurs twice in a row
C1_Witness ==
  /\ op = "expand"
  /\ Count(Flat, sA) >= 2
  /\ \E i \in 1..(Len(Flat) - 1) : Flat[i] = sD /\ Flat[i + 1] = sD
  /\ Count(result, sA) = 1
  /\ Count(result, sD) >= 2

\* C2: after file.expand, the output is a subsequence of the flattened
\* per-pattern results, and whenever x first appears before y there, x first
\* appears before y in the output.
C2_FirstAppearanceOrder ==
  op = "expand" =>
    /\ IsSubseq(result, Flat)
    /\ \A x, y \in Elems(Flat) :
         FirstIdx(Flat, x) < FirstIdx(Flat, y) =>
           /\ x \in Elems(result)
           /\ y \in Elems(result)
           /\ FirstIdx(result, x) < FirstIdx(result, y)

\* a duplicate plain path was removed from behind a directive and a glob
\* contributed several entries
C2_Witness ==
  /\ op = "expand"
  /\ Len(result) < Len(Flat)
  /\ Len(result) >= 3
  /\ \E i, j, k \in 1..Len(Flat) :
       i < j /\ j < k /\ Flat[i] = Flat[k] /\ getDirectiveParts(Flat[j])

\* C3: a returning file.expandFiles / file.expandDirs call yields file.expand
\* of the same pattern list restricted, in order, to the directive tokens and
\* the entries of the asked type.
C3_FilterIsRestriction ==
  (op \in {"expandFiles", "expandDirs"} /\ err = "none") =>
    LET Keep(p) == getDirectiveParts(p) \/ typeHolds(TypeOf(op), statSync(fs, p))
    IN result = SelectSeq(Expansion, Keep)

\* C4: when the metadata query fails for a non-directive entry of the
\* expansion, file.expandFiles / file.expandDirs raises a task error and
\* returns nothing.
C4_StatFailureIsFatal ==
  (/\ op \in {"expandFiles", "expandDirs"}
   /\ \E p \in Elems(Expansion) : ~getDirectiveParts(p) /\ statSync(fs, p) = "ENOENT") =>
    err = "TaskError" /\ result = <<>>

\* the expansion holds a dangling entry next to a directive and the call threw
C4_Witness ==
  /\ op = "expandFiles"
  /\ fs[sA] = "broken"
  /\ sA \in Elems(Expansion)
  /\ sD \in Elems(Expansion)
  /\ err = "TaskError"
  /\ statLog # <<>>

\* C5: file.expandFiles / file.expandDirs never query the metadata of a
\* directive token, and a returning call yields the directive tokens of the
\* expansion unchanged, in the same order and number.
C5_DirectivesPassThrough ==
  op \in {"expandFiles", "expandDirs"} =>
    /\ \A i \in 1..Len(statLog) : ~getDirectiveParts(statLog[i])
    /\ err = "none" => Directives(result) = Directives(Expansion)

\* a dirs-only call dropped a regular file and kept two directives
C5_Witness ==
  /\ op = "expandDirs"
  /\ err = "none"
  /\ fs[sA] = "file"
  /\ sA \in Elems(statLog)
  /\ sA \notin Elems(result)
  /\ Count(result, sD) = 2

----------------------------------------------------------------------------
(* Properties of file.expandFileURLs.                                      *)

IsUrlEntry(item) == isURL(toString(item))

IsPatternEntry(item) == ~isURL(toString(item))

\* the URL literals of the call's pattern list, in order
UrlLiterals == Map(toString, SelectSeq(patterns, IsUrlEntry))

\* the regular files file.expand yields for the remaining patterns
FileMatches ==
  LET IsFileMatch(p) == ~getDirectiveParts(p) /\ statSync(fs, p) = "file"
  IN SelectSeq(expand(fs, <<List(SelectSeq(patterns, IsPatternEntry))>>, 0), IsFileMatch)

\* C6: a returning file.expandFileURLs call yields the file:// URIs of the
\* filesystem matches of the non-URL patterns, in expansion order, followed
\* by the URL literals of the input, verbatim and in their original order.
C6_FileURIsThenURLs ==
  (op = "expandFileURLs" /\ err = "none") =>
    LET ToURL(p) == fileURL(platform, p)
    IN result = Map(ToURL, FileMatches) \o UrlLiterals

\* C7: every file:// URI a returning file.expandFileURLs call produces is
\* the URI of a regular file of the filesystem, never of a directory or of a
\* directive token.
C7_URIsAreRegularFiles ==
  (op = "expandFileURLs" /\ err = "none") =>
    \A i \in 1..(Len(result) - Len(UrlLiterals)) :
      \E p \in FsNames : fs[p] = "file" /\ result[i] = fileURL(platform, p)

----------------------------------------------------------------------------
(* Properties of file.recurse.                                             *)

WalkRootAbs == pathResolveAll(WalkCwd, <<walkRoot>>)

\* the regular files of the tree below the walked root, as absolute segments
FilesUnderRoot ==
  {WalkCwd.segs \o f : f \in {g \in tree.files :
      /\ Len(WalkCwd.segs \o g) > Len(WalkRootAbs.segs)
      /\ HasPrefix(WalkCwd.segs \o g, WalkRootAbs.segs)}}

CallTarget(c) == pathResolveAll(WalkCwd, <<c.fullPath>>)

\* C8: a completed walk invokes the callback exactly once per regular file
\* below the root and for nothing else; each invocation carries the root it
\* was given, the file's directory relative to the root (nothing for a file
\* directly in the root) and the file's name, and joining the three yields
\* the full path, which is the file's path.
C8_WalkVisitsEachFileOnce ==
  walk = "done" =>
    /\ Len(calls) = Cardinality(FilesUnderRoot)
    /\ \A f \in FilesUnderRoot :
         Cardinality({i \in 1..Len(calls) : CallTarget(calls[i]).segs = f}) = 1
    /\ \A i \in 1..Len(calls) :
         LET c == calls[i]
             target == CallTarget(c)
             below == SubSeq(target.segs, Len(WalkRootAbs.segs) + 1, Len(target.segs))
             dir == SubSeq(below, 1, Len(below) - 1)
         IN /\ target.segs \in FilesUnderRoot
            /\ kindAt(tree, target) = "file"
            /\ c.rootdir = walkRoot
            /\ c.filename = below[Len(below)]
            /\ IF dir = <<>> THEN c.subdir = <<>> ELSE c.subdir = <<Rel(dir)>>
            /\ pathJoin(<<<<c.rootdir>>, c.subdir, <<Rel(<<c.filename>>)>>>>) = c.fullPath

\* a walk from a relative root reported a file of the root and a file of a
\* nested directory, and passed over an empty directory
C8_Witness ==
  /\ walk = "done"
  /\ walkRoot = Rel(<<".">>)
  /\ \E i \in 1..Len(calls) : calls[i].subdir = <<>>
  /\ \E i \in 1..Len(calls) : calls[i].subdir # <<>> /\ Len(calls[i].fullPath.segs) = 2
  /\ Cardinality(tree.dirs) > 1

----------------------------------------------------------------------------
(* Properties of file.findup.                                              *)

StartAbs == pathResolveAll(cwd, <<startDir>>)

\* the starting directory and its ancestors that hold the file
Holders ==
  {h \in has : h.drive = StartAbs.drive /\ HasPrefix(StartAbs.segs, h.segs)}

Nearest == CHOOSE h \in Holders : \A g \in Holders : Len(g.segs) <= Len(h.segs)

\* C9: a finished file.findup raised no error, kept the filename, and
\* returned the absolute path of the file in the nearest of the starting
\* directory and its ancestors that holds it, or null when none does.
C9_FindupNearestAbsolute ==
  fuPc = "done" =>
    /\ fuErr = "none"
    /\ fuName = FileName
    /\ IF Holders = {} THEN fuRet = <<>>
       ELSE fuRet = <<Path(Nearest.drive, TRUE, Append(Nearest.segs, FileName))>>

\* C10: file.findup terminates: every recursive call is made on a directory
\* of smaller depth, so there are never more recursive calls than the depth
\* of the starting directory allows (one more for a start that is not
\* normalized), and the search ends at the root, not in a stack overflow.
C10_FindupTerminates ==
  /\ fuDepth <= Len(StartAbs.segs) + 1
  /\ fuErr = "none"

====
